---- MODULE Spec2Model ----
(***************************************************************************)
(* Model of the Vimeo and SoundCloud renderers of MediaElement             *)
(* (src/js/renderers/vimeo.js, src/js/renderers/soundcloud.js).            *)
(*                                                                         *)
(* Each renderer has a loader object (vimeoApi / SoundCloudApi) that       *)
(* injects the third-party script and keeps a queue of <iframe> requests,  *)
(* and a factory create() that builds an adapter: closure variables that   *)
(* cache the remote widget's state, a stack of commands issued before the  *)
(* widget is ready (apiStack), synthesized getters/setters/methods and the *)
(* page-global ready callback win['__ready__' + id].                       *)
(*                                                                         *)
(* Conventions of the model                                                *)
(*  - volume is counted in percent (the code's 1 is 100, 0.5 is 50);       *)
(*  - a JavaScript value that may be null/undefined is a set with at most  *)
(*    one element: {} is null/undefined, {x} is the value x;               *)
(*  - the free identifiers win and doc of the sources are the page's       *)
(*    window and document;                                                 *)
(*  - `this` inside the loaders' arrow functions is the module's top-level *)
(*    `this`, which the build decides: undefined (ES module semantics) or  *)
(*    an object that is not the loader object (module.exports, window).    *)
(*    Init chooses the build; the model never changes it.                  *)
(***************************************************************************)
EXTENDS Integers, Sequences, FiniteSets, TLC

\* ------------------------------------------------------------------ bounds
\* media elements the page creates renderers for
MaxAdapters == 2
\* getter, setter and method calls the host makes, over all adapters
MaxCalls == 2
\* deliveries of the ready signal from outside the loader, over all adapters
MaxSignals == 1
\* setter calls the host makes where it only sets volume and muted
MaxVolumeCalls == 3
\* events the remote widget delivers to an adapter's handlers
MaxRemoteEvents == 2
\* hide, show, setSize and destroy calls the host makes
MaxSurfaceCalls == 3

Ids == 1..MaxAdapters
Kinds == {"vimeo", "soundcloud"}

\* ----------------------------------------------------------------- values
Null == {}
Some(x) == {x}

\* the renderer's initial volume (volume = 1), in percent
FullVolume == 100
\* a volume the host sets that is neither 0 nor the initial one
HalfVolume == 50
\* a position, in seconds, the host seeks to
SeekTime == 10
\* delay of the setters' setTimeout, in milliseconds
EventDelay == 50
\* seekTo takes milliseconds
MsPerSecond == 1000
\* a duration the widget reports for a clip that has one
ClipDuration == 2000
\* result of parseInt on a string that starts with no digit
NaN == 0 - 1

\* URLs are sequences of one-character strings
VimeoUrl == <<"v", "/", "5", "9", "?", "x">>
PlayerUrl == <<"p", "/", "v", "/", "7">>
Urls == {VimeoUrl, PlayerUrl}

Digits == <<"0", "1", "2", "3", "4", "5", "6", "7", "8", "9">>
IsDigit(c) == \E d \in 1..Len(Digits) : Digits[d] = c
DigitValue(c) == (CHOOSE d \in 1..Len(Digits) : Digits[d] = c) - 1

\* String.prototype.split(sep)[0]: the part before the first separator
FirstPart(s, sep) ==
    IF \E i \in 1..Len(s) : s[i] = sep
    THEN SubSeq(s, 1, (CHOOSE i \in 1..Len(s) :
                          s[i] = sep /\ \A j \in 1..(i - 1) : s[j] # sep) - 1)
    ELSE s

\* String.prototype.lastIndexOf(c), 1-based; 0 when c does not occur
LastIndexOf(s, c) ==
    IF \E i \in 1..Len(s) : s[i] = c
    THEN CHOOSE i \in 1..Len(s) : s[i] = c /\ \A j \in (i + 1)..Len(s) : s[j] # c
    ELSE 0

RECURSIVE ParseDigits(_, _)
ParseDigits(s, acc) ==
    IF s = <<>> \/ ~IsDigit(Head(s)) THEN acc
    ELSE ParseDigits(Tail(s), acc * 10 + DigitValue(Head(s)))

\* parseInt(s): the leading digits of s, NaN when there are none
ParseInt(s) == IF s = <<>> \/ ~IsDigit(Head(s)) THEN NaN ELSE ParseDigits(s, 0)

\* vimeoApi.getVimeoId(url) for a string url
getVimeoId(url) ==
    LET path == FirstPart(url, "?")
    IN  ParseInt(SubSeq(path, LastIndexOf(path, "/") + 1, Len(path)))

\* the MIME strings the page asks the renderers about
Types == {"video/vimeo", "video/x-vimeo", "video/soundcloud", "video/x-soundcloud",
          "VIDEO/VIMEO", "Video/X-SoundCloud", "video/mp4", ""}

\* let mediaTypes = [...]
mediaTypes(kind) ==
    IF kind = "vimeo" THEN <<"video/vimeo", "video/x-vimeo">>
    ELSE <<"video/soundcloud", "video/x-soundcloud">>

\* Array.prototype.indexOf(x), 0-based; -1 when x is not an element
indexOf(seq, x) ==
    IF \E i \in 1..Len(seq) : seq[i] = x
    THEN (CHOOSE i \in 1..Len(seq) : seq[i] = x /\ \A j \in 1..(i - 1) : seq[j] # x) - 1
    ELSE 0 - 1

\* canPlayType that takes index 0 for "not found"
canPlayTypeFromSecond(kind, type) == indexOf(mediaTypes(kind), type) > 0

\* canPlayType: function (type) { return mediaTypes.indexOf(type) > -1; }
canPlayType(kind, type) == indexOf(mediaTypes(kind), type) > 0 - 1

\* mejs.html5media.properties / methods: the standard playback interface
props == {"currentTime", "duration", "volume", "muted", "paused", "ended", "src", "buffered"}
methods == {"play", "pause", "load"}

\* the properties whose setter the host calls: those the setters' switch has
\* a case for in both renderers, and those it has none for
SetProps == {"src", "currentTime", "volume", "muted", "duration", "paused", "ended",
             "buffered"}

\* the values the host passes to a setter
SetValues(propName) ==
    CASE propName = "volume"      -> {HalfVolume}
      [] propName = "currentTime" -> {SeekTime}
      [] propName = "muted"       -> {TRUE, FALSE}
      [] propName = "src"         -> {PlayerUrl}
      [] OTHER                    -> {0}

SetCommand(propName, value) == [type |-> "set", propName |-> propName, value |-> Some(value)]
CallCommand(methodName) == [type |-> "call", propName |-> methodName, value |-> Null]

\* ---------------------------------------------------------------- adapter
\* The closure of one create() call: the code's variables under their own
\* names, the widget's side of the conversation (remoteCalls, pending,
\* timers) and what the media element has seen (events).
NoAdapter == [
    kind |-> "none", returned |-> FALSE, registered |-> FALSE,
    apiStack |-> <<>>, apiReady |-> FALSE, player |-> Null,
    paused |-> TRUE, volume |-> FullVolume, oldVolume |-> FullVolume,
    currentTime |-> 0, bufferedTime |-> 0, ended |-> FALSE, duration |-> 0,
    url |-> <<>>, muted |-> FALSE, src |-> <<>>, videoId |-> Null,
    subscribed |-> {}, remoteCalls |-> <<>>, pending |-> <<>>, timers |-> <<>>,
    events |-> <<>>, logged |-> 0, rejected |-> 0, createIframes |-> 0,
    issued |-> <<>>, replayed |-> <<>>, startup |-> Null, delivered |-> <<>>,
    display |-> "", size |-> Null, dereferenced |-> 0]

\* the variables of create() before the ready callback is registered
NewAdapter(k, src) ==
    [NoAdapter EXCEPT !.kind = k, !.src = src,
                      !.videoId = IF k = "vimeo" THEN Some(getVimeoId(src)) ELSE Null]

\* mediaElement.dispatchEvent(createEvent(type, adapter))
Dispatch(r, type) == [r EXCEPT !.events = Append(@, type)]

\* setTimeout(() => dispatch(type), 50)
SetTimeout(r, type) == [r EXCEPT !.timers = Append(@, [type |-> type, delay |-> EventDelay])]

\* a call of a method of the remote widget that answers later (a promise or a
\* callback): then names the continuation the code attached
RemoteAsync(r, method, arg, then) ==
    [r EXCEPT !.remoteCalls = Append(@, [method |-> method, param |-> arg]),
              !.pending = Append(@, [method |-> method, param |-> arg, then |-> then])]

\* a call of a method of the remote widget whose answer the code never reads
RemoteCall(r, method, arg) ==
    [r EXCEPT !.remoteCalls = Append(@, [method |-> method, param |-> arg])]

\* --------------------------------------------------------------- getters
\* what vimeo['get' + capName]() returns
vimeoGetValue(r, propName) ==
    IF r.player # Null
    THEN CASE propName = "currentTime" -> Some(r.currentTime)
           [] propName = "duration"    -> Some(r.duration)
           [] propName = "volume"      -> Some(r.volume)
           [] propName = "muted"       -> Some(r.volume = 0)
           [] propName = "paused"      -> Some(r.paused)
           [] propName = "ended"       -> Some(r.ended)
           [] propName = "src"         -> Some(r.url)
           [] propName = "buffered"    ->
                Some([start |-> 0, end |-> r.bufferedTime * r.duration, length |-> 1])
           [] OTHER                    -> Null
    ELSE Null

\* what vimeo['get' + capName]() does: the src getter asks the widget
vimeoGetEffect(r, propName) ==
    IF r.player # Null /\ propName = "src"
    THEN RemoteAsync(r, "getVideoUrl", Null, "url")
    ELSE r

\* scGetValue without the test of scPlayer: the cache is read before readiness
scGetValueUnchecked(r, propName) ==
    CASE propName = "currentTime" -> Some(r.currentTime)
      [] propName = "duration"    -> Some(r.duration)
      [] propName = "volume"      -> Some(r.volume)
      [] propName = "paused"      -> Some(r.paused)
      [] propName = "ended"       -> Some(r.ended)
      [] propName = "muted"       -> Some(r.muted)
      [] propName = "src"         -> Some(r.src)
      [] OTHER                    -> Null

\* what sc['get' + capName]() returns (it has no effect)
scGetValue(r, propName) ==
    IF r.player # Null
    THEN CASE propName = "currentTime" -> Some(r.currentTime)
           [] propName = "duration"    -> Some(r.duration)
           [] propName = "volume"      -> Some(r.volume)
           [] propName = "paused"      -> Some(r.paused)
           [] propName = "ended"       -> Some(r.ended)
           [] propName = "muted"       -> Some(r.muted)
           [] propName = "buffered"    ->
                Some([start |-> 0, end |-> r.bufferedTime * r.duration, length |-> 1])
           [] propName = "src"         -> Some(r.src)
           [] OTHER                    -> Null
    ELSE Null

getValue(r, propName) ==
    IF r.kind = "vimeo" THEN vimeoGetValue(r, propName) ELSE scGetValue(r, propName)

getEffect(r, propName) ==
    IF r.kind = "vimeo" THEN vimeoGetEffect(r, propName) ELSE r

\* --------------------------------------------------------------- setters
\* pushSet with the setter's setTimeout moved out of the ready branch
pushSetAndNotify(r, propName, value) ==
    SetTimeout([r EXCEPT !.apiStack = Append(@, SetCommand(propName, value))],
               "volumechange")

\* store for after "READY" event fires
pushSet(r, propName, value) ==
    [r EXCEPT !.apiStack = Append(@, SetCommand(propName, value))]

\* vimeoSet whose volume case runs without the test of vimeoPlayer
vimeoSetEager(r, propName, value) ==
    IF propName = "volume"
    THEN RemoteAsync(r, "setVolume", Some(value), "volume")
    ELSE pushSet(r, propName, value)

\* vimeo['set' + capName](value)
vimeoSet(r, propName, value) ==
    IF r.player # Null
    THEN CASE propName = "src" ->
                RemoteAsync(r, "loadVideo", Some(getVimeoId(value)), "src")
           [] propName = "currentTime" ->
                RemoteAsync(r, "setCurrentTime", Some(value), "currentTime")
           [] propName = "volume" ->
                RemoteAsync(r, "setVolume", Some(value), "volume")
           [] propName = "loop" ->
                RemoteAsync(r, "setLoop", Some(value), "loop")
           [] propName = "muted" ->
                IF value
                THEN RemoteAsync(r, "setVolume", Some(0), "mute")
                ELSE RemoteAsync(r, "setVolume", Some(r.oldVolume), "unmute")
           [] OTHER -> [r EXCEPT !.logged = @ + 1]
    ELSE pushSet(r, propName, value)

\* scSet whose default case also announces a change
scSetNotifying(r, propName, value) ==
    IF r.player # Null
    THEN CASE propName = "src" -> RemoteCall(r, "load", Some(value))
           [] propName = "currentTime" ->
                RemoteCall(r, "seekTo", Some(value * MsPerSecond))
           [] propName = "muted" ->
                SetTimeout(RemoteCall(r, "setVolume",
                                      Some(IF value THEN 0 ELSE FullVolume)),
                           "volumechange")
           [] propName = "volume" ->
                SetTimeout(RemoteCall(r, "setVolume", Some(value)), "volumechange")
           [] OTHER -> SetTimeout([r EXCEPT !.logged = @ + 1], "volumechange")
    ELSE pushSet(r, propName, value)

\* sc['set' + capName](value)
scSet(r, propName, value) ==
    IF r.player # Null
    THEN CASE propName = "src" -> RemoteCall(r, "load", Some(value))
           [] propName = "currentTime" ->
                RemoteCall(r, "seekTo", Some(value * MsPerSecond))
           [] propName = "muted" ->
                SetTimeout(RemoteCall(r, "setVolume",
                                      Some(IF value THEN 0 ELSE FullVolume)),
                           "volumechange")
           [] propName = "volume" ->
                SetTimeout(RemoteCall(r, "setVolume", Some(value)), "volumechange")
           [] OTHER -> [r EXCEPT !.logged = @ + 1]
    ELSE pushSet(r, propName, value)

set(r, propName, value) ==
    IF r.kind = "vimeo" THEN vimeoSet(r, propName, value) ELSE scSet(r, propName, value)

\* --------------------------------------------------------------- methods
pushCall(r, methodName) ==
    [r EXCEPT !.apiStack = Append(@, CallCommand(methodName))]

\* vimeoMethod with the push moved out of the else branch
vimeoMethodAlwaysPush(r, methodName) ==
    pushCall(CASE methodName = "play"  -> RemoteAsync(r, "play", Null, "caller")
               [] methodName = "pause" -> RemoteAsync(r, "pause", Null, "caller")
               [] OTHER                -> r,
             methodName)

\* vimeo[methodName](): play and pause hand the widget's promise to the caller
vimeoMethod(r, methodName) ==
    IF r.player # Null
    THEN CASE methodName = "play"  -> RemoteAsync(r, "play", Null, "caller")
           [] methodName = "pause" -> RemoteAsync(r, "pause", Null, "caller")
           [] OTHER                -> r
    ELSE pushCall(r, methodName)

\* scMethod whose load case reloads the widget
scMethodLoading(r, methodName) ==
    IF r.player # Null
    THEN CASE methodName = "play"  -> RemoteCall(r, "play", Null)
           [] methodName = "pause" -> RemoteCall(r, "pause", Null)
           [] OTHER                -> RemoteCall(r, "load", Some(r.src))
    ELSE pushCall(r, methodName)

\* sc[methodName]()
scMethod(r, methodName) ==
    IF r.player # Null
    THEN CASE methodName = "play"  -> RemoteCall(r, "play", Null)
           [] methodName = "pause" -> RemoteCall(r, "pause", Null)
           [] OTHER                -> r
    ELSE pushCall(r, methodName)

\* what vimeo[methodName]() / sc[methodName]() returns: "widget" is the value
\* the widget's play() or pause() returned
methodReturn(r, methodName) ==
    IF r.player # Null
    THEN CASE methodName = "play"  -> "widget"
           [] methodName = "pause" -> "widget"
           [] methodName = "load"  -> "null"
           [] OTHER                -> "undefined"
    ELSE "undefined"

method(r, methodName) ==
    IF r.kind = "vimeo" THEN vimeoMethod(r, methodName) ELSE scMethod(r, methodName)

\* ------------------------------------------------- hide, show, setSize
\* the operations each adapter has besides the proxies
surfaceOps(kind) ==
    IF kind = "vimeo" THEN {"hide", "setSize", "show"}
    ELSE {"setSize", "hide", "show", "destroy"}

\* the size the host passes to setSize
Sizes == {<<640, 360>>}

\* vimeo.hide / vimeo.setSize / vimeo.show: display is
\* vimeoContainer.style.display, size its width and height attributes
vimeoSurface(r, op, size) ==
    CASE op = "hide" ->
            LET r1 == vimeoMethod(r, "pause")
            IN  IF r1.player # Null THEN [r1 EXCEPT !.display = "none"] ELSE r1
      [] op = "setSize" -> [r EXCEPT !.size = Some(size)]
      [] op = "show" -> IF r.player # Null THEN [r EXCEPT !.display = ""] ELSE r

\* sc.setSize / sc.hide / sc.show / sc.destroy: scIframe is set by create(),
\* so the tests of it succeed; destroy calls scPlayer.destroy(), which is a
\* TypeError while scPlayer is null (dereferenced records it)
scSurface(r, op, size) ==
    CASE op = "setSize" -> r
      [] op = "hide" -> [scMethod(r, "pause") EXCEPT !.display = "none"]
      [] op = "show" -> [r EXCEPT !.display = ""]
      [] op = "destroy" ->
            IF r.player # Null THEN RemoteCall(r, "destroy", Null)
            ELSE [r EXCEPT !.dereferenced = @ + 1]

surface(r, op, size) ==
    IF r.kind = "vimeo" THEN vimeoSurface(r, op, size) ELSE scSurface(r, op, size)

\* -------------------------------------------------------- ready callback
ValueOf(v) == CHOOSE x \in v : TRUE

\* one turn of the "do call stack" loop
replayItem(r, stackItem) ==
    IF stackItem.type = "set"
    THEN [set(r, stackItem.propName, ValueOf(stackItem.value))
            EXCEPT !.replayed = Append(@, SetCommand(stackItem.propName,
                                                     ValueOf(stackItem.value)))]
    ELSE IF stackItem.type = "call"
    THEN [method(r, stackItem.propName)
            EXCEPT !.replayed = Append(@, CallCommand(stackItem.propName))]
    ELSE r

\* replay that takes the commands from the end of the stack
RECURSIVE replayFromEnd(_, _, _)
replayFromEnd(r, i, il) ==
    IF i > il THEN r
    ELSE replayFromEnd(replayItem(r, r.apiStack[il - i + 1]), i + 1, il)

\* for (i = 0, il = apiStack.length; i < il; i++): i is 1-based here
RECURSIVE replay(_, _, _)
replay(r, i, il) ==
    IF i > il THEN r ELSE replay(replayItem(r, r.apiStack[i]), i + 1, il)

\* the remote events each adapter binds a handler to
vimeoEvents == {"loaded", "progress", "timeupdate", "play", "pause", "ended"}
scEvents == {"PLAY_PROGRESS", "PAUSE", "PLAY", "FINISHED", "READY", "LOAD_PROGRESS"}

\* events = ['rendererready', 'loadeddata', 'loadedmetadata', 'canplay']
initEvents == <<"rendererready", "loadeddata", "loadedmetadata", "canplay">>

RECURSIVE dispatchAll(_, _)
dispatchAll(r, types) ==
    IF types = <<>> THEN r ELSE dispatchAll(Dispatch(r, Head(types)), Tail(types))

\* the initial events: startup records what had been replayed and subscribed
\* to when the first of them is dispatched
giveInitialEvents(r) ==
    dispatchAll([r EXCEPT !.startup = Some([replayed |-> r.replayed,
                                            subscribed |-> r.subscribed])],
                initEvents)

\* readyCallback that empties the stack once it has replayed it
readyCallbackClearing(r) ==
    LET r1 == [r EXCEPT !.apiReady = TRUE, !.player = Some("widget")]
        r2 == [replay(r1, 1, Len(r1.apiStack)) EXCEPT !.apiStack = <<>>]
        r3 == [r2 EXCEPT !.subscribed =
                  IF r.kind = "vimeo" THEN vimeoEvents ELSE scEvents]
    IN  giveInitialEvents(r3)

\* readyCallback that gives the initial events before it replays the stack
readyCallbackEventsFirst(r) ==
    LET r1 == [r EXCEPT !.apiReady = TRUE, !.player = Some("widget")]
        r2 == giveInitialEvents(r1)
        r3 == replay(r2, 1, Len(r2.apiStack))
    IN  [r3 EXCEPT !.subscribed =
            IF r.kind = "vimeo" THEN vimeoEvents ELSE scEvents]

\* win['__ready__' + id](player)
readyCallback(r) ==
    LET r1 == [r EXCEPT !.apiReady = TRUE, !.player = Some("widget")]
        r2 == replay(r1, 1, Len(r1.apiStack))
        r3 == [r2 EXCEPT !.subscribed =
                  IF r.kind = "vimeo" THEN vimeoEvents ELSE scEvents]
    IN  giveInitialEvents(r3)

\* ------------------------------------------------------- remote events
\* vimeo.mediaElement.getPaused(): the media element hands the call to its
\* renderer's getPaused
mediaElementGetPaused(r) == ValueOf(vimeoGetValue(r, "paused"))

\* vimeoOn whose ended handler leaves paused as it is
vimeoOnEndedPaused(r, name) ==
    CASE name = "loaded" -> RemoteAsync(r, "getDuration", Null, "loaded")
      [] name = "progress" ->
            RemoteAsync([r EXCEPT !.paused = mediaElementGetPaused(r)],
                        "getDuration", Null, "progress")
      [] name = "timeupdate" ->
            Dispatch(RemoteAsync([r EXCEPT !.paused = mediaElementGetPaused(r),
                                           !.ended = FALSE],
                                 "getCurrentTime", Null, "seconds"),
                     "timeupdate")
      [] name = "play" ->
            Dispatch(RemoteAsync([r EXCEPT !.paused = FALSE, !.ended = FALSE],
                                 "play", Null, "onplay"),
                     "play")
      [] name = "pause" ->
            Dispatch(RemoteAsync([r EXCEPT !.paused = TRUE, !.ended = FALSE],
                                 "pause", Null, "onpause"),
                     "pause")
      [] name = "ended" ->
            Dispatch([r EXCEPT !.ended = TRUE], "ended")

\* the handlers of vimeoPlayer.on(name, ...). The play and pause handlers
\* assign the event to the undeclared name `event`, which the page's window
\* defines (window.event), so the assignment does not throw.
vimeoOn(r, name) ==
    CASE name = "loaded" -> RemoteAsync(r, "getDuration", Null, "loaded")
      [] name = "progress" ->
            RemoteAsync([r EXCEPT !.paused = mediaElementGetPaused(r)],
                        "getDuration", Null, "progress")
      [] name = "timeupdate" ->
            Dispatch(RemoteAsync([r EXCEPT !.paused = mediaElementGetPaused(r),
                                           !.ended = FALSE],
                                 "getCurrentTime", Null, "seconds"),
                     "timeupdate")
      [] name = "play" ->
            Dispatch(RemoteAsync([r EXCEPT !.paused = FALSE, !.ended = FALSE],
                                 "play", Null, "onplay"),
                     "play")
      [] name = "pause" ->
            Dispatch(RemoteAsync([r EXCEPT !.paused = TRUE, !.ended = FALSE],
                                 "pause", Null, "onpause"),
                     "pause")
      [] name = "ended" ->
            Dispatch([r EXCEPT !.paused = FALSE, !.ended = TRUE], "ended")

\* the handlers of scPlayer.bind(SC.Widget.Events[name], ...)
scBind(r, name) ==
    CASE name = "PLAY_PROGRESS" ->
            RemoteAsync([r EXCEPT !.paused = FALSE, !.ended = FALSE],
                        "getPosition", Null, "position")
      [] name = "PAUSE" -> Dispatch([r EXCEPT !.paused = TRUE], "pause")
      [] name = "PLAY" ->
            Dispatch([r EXCEPT !.paused = FALSE, !.ended = FALSE], "play")
      [] name = "FINISHED" ->
            Dispatch([r EXCEPT !.paused = FALSE, !.ended = TRUE], "ended")
      [] name = "READY" -> RemoteAsync(r, "getDuration", Null, "ready")
      [] name = "LOAD_PROGRESS" ->
            RemoteAsync(RemoteAsync(r, "getDuration", Null, "loadProgress"),
                        "getDuration", Null, "loadDuration")

\* ---------------------------------------------------------------- state
VARIABLES
    thisBinding,  \* the arrow functions' `this`: "undefined" or "object"
    api,          \* per loader: the properties of vimeoApi / SoundCloudApi
    moduleThis,   \* per loader: the properties of the arrow functions' `this`
    script,       \* per loader: the injected <script> and its load handler
    adapters,     \* per media element: the closure of create()
    errors,       \* the functions that have thrown an uncaught exception
    calls,        \* getter, setter and method calls made so far
    signals,      \* ready signals delivered from outside the loader so far
    lastGet,      \* the getter call of the last step, if it was one
    lastCall      \* the setter, method or canPlayType call of the last step

vars == <<thisBinding, api, moduleThis, script, adapters, errors, calls, signals, lastGet,
          lastCall>>

\* ---------------------------------------------------------------- loader
\* The loader functions act on one loader: w.api is the loader object,
\* w.this the arrow functions' `this`, w.script its <script>, w.ads the
\* adapters and w.threw the function that threw, if one did.
Throw(w, name) == [w EXCEPT !.threw = Some(name)]

\* vimeoApi / SoundCloudApi as declared; enqueued and created record the
\* requests pushed onto the queue and those createIframe ran for, in order
NewApi == [isStarted |-> FALSE, isApiLoaded |-> FALSE, isLoaded |-> FALSE, iframeQueue |-> <<>>,
           enqueued |-> <<>>, created |-> <<>>]

\* an object that is not the loader: it has none of its properties
NewThis == [isStarted |-> FALSE, isApiLoaded |-> FALSE, isLoaded |-> FALSE,
            iframeQueue |-> Null, createIframe |-> FALSE, readyState |-> Null]

NewScript == [injected |-> 0, done |-> FALSE, onload |-> FALSE]

\* createIframe(settings): new Vimeo.Player / SC.Widget, then the ready callback
createIframe(w, id) ==
    [w EXCEPT !.ads[id] = readyCallback([@ EXCEPT !.createIframes = @ + 1]),
              !.api.created = Append(@, id)]

\* loadIframeApi that reads the started flag of `this` and sets the loader's
loadIframeApiOtherFlag(w, binding) ==
    IF binding = "undefined" THEN Throw(w, "loadIframeApi")
    ELSE IF ~w.this.isStarted
    THEN [w EXCEPT !.script = [injected |-> @.injected + 1, done |-> FALSE, onload |-> TRUE],
                   !.api.isStarted = TRUE]
    ELSE w

\* loadIframeApi: () => {...}
loadIframeApi(w, binding) ==
    IF binding = "undefined" THEN Throw(w, "loadIframeApi")
    ELSE IF ~w.this.isStarted
    THEN [w EXCEPT !.script = [injected |-> @.injected + 1, done |-> FALSE, onload |-> TRUE],
                   !.this.isStarted = TRUE]
    ELSE w

\* enqueueIframe that creates the surface while the script is not loaded
enqueueIframeUnloaded(w, binding, id) ==
    IF ~w.api.isLoaded
    THEN createIframe(w, id)
    ELSE LET w1 == loadIframeApi(w, binding)
         IN  IF w1.threw # Null THEN w1
             ELSE [w1 EXCEPT !.api.iframeQueue = Append(@, id),
                             !.api.enqueued = Append(@, id)]

\* enqueueIframe: function (settings) {...}
enqueueIframe(w, binding, id) ==
    IF w.api.isLoaded
    THEN createIframe(w, id)
    ELSE LET w1 == loadIframeApi(w, binding)
         IN  IF w1.threw # Null THEN w1
             ELSE [w1 EXCEPT !.api.iframeQueue = Append(@, id),
                             !.api.enqueued = Append(@, id)]

\* while (this.iframeQueue.length > 0) { settings = pop(); this.createIframe(settings) }
RECURSIVE drainQueue(_)
drainQueue(w) ==
    IF w.this.iframeQueue = Null THEN Throw(w, "iFrameReady")
    ELSE LET queue == ValueOf(w.this.iframeQueue)
         IN  IF Len(queue) = 0 THEN w
             ELSE LET settings == queue[Len(queue)]
                      w1 == [w EXCEPT !.this.iframeQueue =
                                Some(SubSeq(queue, 1, Len(queue) - 1))]
                  IN  IF ~w1.this.createIframe THEN Throw(w1, "iFrameReady")
                      ELSE drainQueue(createIframe(w1, settings))

\* iFrameReady / apiReady: () => {...}
iFrameReady(w, binding) ==
    IF binding = "undefined" THEN Throw(w, "iFrameReady")
    ELSE drainQueue([w EXCEPT !.this.isLoaded = TRUE, !.this.isApiLoaded = TRUE])

\* script.onload = script.onreadystatechange = () => {...}
onload(w, binding) ==
    IF w.script.done THEN w
    ELSE IF binding = "undefined" THEN Throw(w, "onload")
    ELSE IF w.this.readyState = Null \/ w.this.readyState \subseteq {"loaded", "complete"}
    THEN LET w1 == iFrameReady([w EXCEPT !.script.done = TRUE], binding)
         IN  IF w1.threw # Null THEN w1
             ELSE [w1 EXCEPT !.script.onload = FALSE]
    ELSE w

World(kind) == [api |-> api[kind], this |-> moduleThis[kind], script |-> script[kind],
                ads |-> adapters, threw |-> Null]

\* the state after a loader function has run on loader kind
Commit(kind, w) ==
    /\ api' = [api EXCEPT ![kind] = w.api]
    /\ moduleThis' = [moduleThis EXCEPT ![kind] = w.this]
    /\ script' = [script EXCEPT ![kind] = w.script]
    /\ adapters' = w.ads
    /\ errors' = errors \cup w.threw

NoGet == [id |-> 0, propName |-> "", ret |-> Null, wasNull |-> TRUE, pending |-> 0,
          cached |-> Null]

\* op is "set", "call", "surface" or "canPlayType"; ret is what a setter or method
\* returned, can what canPlayType returned
NoCall == [op |-> "none", id |-> 0, kind |-> "", name |-> "", ret |-> "", can |-> FALSE]

Init ==
    /\ thisBinding \in {"undefined", "object"}
    /\ api = [k \in Kinds |-> NewApi]
    /\ moduleThis = [k \in Kinds |-> NewThis]
    /\ script = [k \in Kinds |-> NewScript]
    /\ adapters = [id \in Ids |-> NoAdapter]
    /\ errors = {}
    /\ calls = 0
    /\ signals = 0
    /\ lastGet = NoGet
    /\ lastCall = NoCall

\* ---------------------------------------------------------------- actions
\* renderer.create(mediaElement, options, mediaFiles): the closure, the ready
\* callback, the <iframe>, enqueueIframe, then hide/setSize/show and return
Create(id, kind) ==
    /\ adapters[id].kind = "none"
    /\ LET r == [NewAdapter(kind, VimeoUrl) EXCEPT !.registered = TRUE]
           w0 == [World(kind) EXCEPT !.ads[id] = r]
           w == enqueueIframe(w0, thisBinding, id)
       IN  Commit(kind, [w EXCEPT !.ads[id].returned = (w.threw = Null)])
    /\ lastGet' = NoGet
    /\ lastCall' = NoCall
    /\ UNCHANGED <<thisBinding, calls, signals>>

\* the page asks a renderer whether it plays a MIME type
CanPlayType(kind, type) ==
    /\ lastCall' = [NoCall EXCEPT !.op = "canPlayType", !.kind = kind, !.name = type,
                                 !.can = canPlayType(kind, type)]
    /\ lastGet' = NoGet
    /\ UNCHANGED <<thisBinding, api, moduleThis, script, adapters, errors, calls, signals>>

\* the browser fires the script's load / readystatechange event
ScriptLoaded(kind) ==
    /\ script[kind].onload
    /\ Commit(kind, onload(World(kind), thisBinding))
    /\ lastGet' = NoGet
    /\ lastCall' = NoCall
    /\ UNCHANGED <<thisBinding, calls, signals>>

\* win.onVimeoPlayerAPIReady()
OnVimeoPlayerAPIReady ==
    /\ Commit("vimeo", iFrameReady(World("vimeo"), thisBinding))
    /\ lastGet' = NoGet
    /\ lastCall' = NoCall
    /\ UNCHANGED <<thisBinding, calls, signals>>

\* win['__ready__' + id](player) called with a widget from outside the loader:
\* the callback is a property of the page's global object, which the loader
\* reads in createIframe and any other script of the page can read as well.
\* It is delivered to an adapter at most once, as createIframe does.
ReadySignal(id) ==
    /\ adapters[id].registered
    /\ adapters[id].player = Null
    /\ adapters' = [adapters EXCEPT ![id] = readyCallback(@)]
    /\ signals' = signals + 1
    /\ lastGet' = NoGet
    /\ lastCall' = NoCall
    /\ UNCHANGED <<thisBinding, api, moduleThis, script, errors, calls>>

\* the five cached fields the getters read
Cached(r) == [currentTime |-> r.currentTime, duration |-> r.duration,
              volume |-> r.volume, paused |-> r.paused, ended |-> r.ended]

\* the host reads a property
Get(id, propName) ==
    LET r == adapters[id]
        r1 == getEffect(r, propName)
    IN  /\ r.returned
        /\ adapters' = [adapters EXCEPT ![id] = r1]
        /\ calls' = calls + 1
        /\ lastGet' = [id |-> id, propName |-> propName, ret |-> getValue(r, propName),
                       wasNull |-> (r.player = Null), pending |-> Len(r.pending),
                       cached |-> Some(Cached(r))]
        /\ lastCall' = NoCall
        /\ UNCHANGED <<thisBinding, api, moduleThis, script, errors, signals>>

\* the host writes a property
Set(id, propName, value) ==
    LET r == adapters[id]
        cmd == SetCommand(propName, value)
    IN  /\ r.returned
        /\ adapters' = [adapters EXCEPT ![id] =
              [set(r, propName, value) EXCEPT
                  !.issued = IF r.player = Null THEN Append(@, cmd) ELSE @]]
        /\ calls' = calls + 1
        /\ lastGet' = NoGet
        /\ lastCall' = [NoCall EXCEPT !.op = "set", !.id = id, !.name = propName,
                                     !.ret = "undefined"]
        /\ UNCHANGED <<thisBinding, api, moduleThis, script, errors, signals>>

\* the host calls play(), pause() or load()
Method(id, methodName) ==
    LET r == adapters[id]
        cmd == CallCommand(methodName)
    IN  /\ r.returned
        /\ adapters' = [adapters EXCEPT ![id] =
              [method(r, methodName) EXCEPT
                  !.issued = IF r.player = Null THEN Append(@, cmd) ELSE @]]
        /\ calls' = calls + 1
        /\ lastGet' = NoGet
        /\ lastCall' = [NoCall EXCEPT !.op = "call", !.id = id, !.name = methodName,
                                     !.ret = methodReturn(r, methodName)]
        /\ UNCHANGED <<thisBinding, api, moduleThis, script, errors, signals>>

\* the host calls hide(), show(), setSize() or destroy(): hide issues a pause
\* command; a destroy that dereferenced the null widget has thrown
Surface(id, op, size) ==
    LET r == adapters[id]
        r1 == surface(r, op, size)
        queued == Len(r1.apiStack) > Len(r.apiStack)
    IN  /\ r.returned
        /\ op \in surfaceOps(r.kind)
        /\ adapters' = [adapters EXCEPT ![id] =
              [r1 EXCEPT !.issued = IF queued THEN Append(@, CallCommand("pause")) ELSE @]]
        /\ errors' = IF r1.dereferenced > r.dereferenced THEN errors \cup {op} ELSE errors
        /\ calls' = calls + 1
        /\ lastGet' = NoGet
        /\ lastCall' = [NoCall EXCEPT !.op = "surface", !.id = id, !.name = op,
                                     !.ret = "undefined"]
        /\ UNCHANGED <<thisBinding, api, moduleThis, script, signals>>

\* ------------------------------------------------------- remote answers
RemoveAt(seq, i) == SubSeq(seq, 1, i - 1) \o SubSeq(seq, i + 1, Len(seq))

\* the .then(...) continuation the Vimeo setter or getter attached: call is the
\* answered call, autoplay is mediaElement.getAttribute('autoplay') and answer
\* the value the widget resolves a query with
vimeoThen(r, call, autoplay, answer) ==
    CASE call.then = "src" ->
            IF autoplay THEN RemoteCall(r, "play", Null) ELSE r
      [] call.then = "currentTime" ->
            SetTimeout([r EXCEPT !.currentTime = ValueOf(call.param)], "timeupdate")
      [] call.then = "volume" ->
            SetTimeout([r EXCEPT !.volume = ValueOf(call.param),
                                 !.oldVolume = ValueOf(call.param)], "volumechange")
      [] call.then = "mute" ->
            SetTimeout([r EXCEPT !.volume = 0], "volumechange")
      [] call.then = "unmute" ->
            SetTimeout([r EXCEPT !.volume = r.oldVolume], "volumechange")
      [] call.then = "url" -> [r EXCEPT !.url = answer]
      [] call.then = "loaded" ->
            Dispatch([r EXCEPT !.duration = answer,
                               !.bufferedTime = IF answer > 0 THEN answer * answer ELSE @],
                     "loadedmetadata")
      [] call.then = "progress" ->
            Dispatch([r EXCEPT !.duration = answer,
                               !.bufferedTime = IF answer > 0 THEN answer * answer ELSE @],
                     "progress")
      [] call.then = "seconds" -> [r EXCEPT !.currentTime = answer]
      [] OTHER -> r

\* the callback the SoundCloud handler passed to getPosition / getDuration
scThen(r, call, answer) ==
    CASE call.then = "position" ->
            Dispatch([r EXCEPT !.currentTime = answer \div MsPerSecond], "timeupdate")
      [] call.then = "ready" ->
            Dispatch([r EXCEPT !.duration = answer \div MsPerSecond], "loadedmetadata")
      [] call.then = "loadProgress" ->
            IF r.duration > 0
            THEN Dispatch([r EXCEPT !.bufferedTime = r.duration * answer], "progress")
            ELSE r
      [] call.then = "loadDuration" ->
            Dispatch([r EXCEPT !.duration = answer], "loadedmetadata")
      [] OTHER -> r

\* what the widget can answer a call with
Answers(call) ==
    CASE call.method = "getVideoUrl"    -> Urls
      [] call.method = "getDuration"    -> {0, ClipDuration}
      [] call.method = "getCurrentTime" -> {SeekTime}
      [] call.method = "getPosition"    -> {SeekTime * MsPerSecond}
      [] OTHER                          -> {0}

\* the continuations that end in ['catch'](error => vimeoApi.errorHandler(error, vimeo))
Caught == {"src", "currentTime", "volume", "loop", "mute", "unmute",
           "loaded", "progress", "onplay", "onpause"}

\* vimeoApi.errorHandler(error, target): the event is created and given its
\* message, then dispatched on mediaElement, a name that is a parameter of
\* create() and is not bound where errorHandler is defined
errorHandlerMediaElement == Null

errorHandler(w, id) ==
    IF errorHandlerMediaElement = Null THEN Throw(w, "errorHandler")
    ELSE [w EXCEPT !.ads[id] = Dispatch(@, "error")]

\* the widget resolves the promise, or calls the callback, of the i-th call
\* in flight
Resolve(id, i, autoplay, answer) ==
    LET r == adapters[id]
    IN  /\ i \in 1..Len(r.pending)
        /\ adapters' = [adapters EXCEPT ![id] =
              IF r.kind = "vimeo"
              THEN vimeoThen([r EXCEPT !.pending = RemoveAt(@, i)], r.pending[i],
                             autoplay, answer)
              ELSE scThen([r EXCEPT !.pending = RemoveAt(@, i)], r.pending[i], answer)]
        /\ lastGet' = NoGet
        /\ lastCall' = NoCall
        /\ UNCHANGED <<thisBinding, api, moduleThis, script, errors, calls, signals>>

\* the widget rejects the promise of the i-th call in flight (the SoundCloud
\* widget takes callbacks and has no rejection)
Reject(id, i) ==
    LET r == adapters[id]
        kind == r.kind
        w0 == [World(kind) EXCEPT !.ads[id] =
                  [r EXCEPT !.pending = RemoveAt(@, i), !.rejected = @ + 1]]
    IN  /\ i \in 1..Len(r.pending)
        /\ kind = "vimeo"
        /\ Commit(kind, IF r.pending[i].then \in Caught THEN errorHandler(w0, id) ELSE w0)
        /\ lastGet' = NoGet
        /\ lastCall' = NoCall
        /\ UNCHANGED <<thisBinding, calls, signals>>

\* the widget delivers an event the adapter has a handler for
RemoteEvent(id, name) ==
    LET r == adapters[id]
        r1 == [r EXCEPT !.delivered = Append(@, name)]
    IN  /\ name \in r.subscribed
        /\ adapters' = [adapters EXCEPT ![id] =
              IF r.kind = "vimeo" THEN vimeoOn(r1, name) ELSE scBind(r1, name)]
        /\ lastGet' = NoGet
        /\ lastCall' = NoCall
        /\ UNCHANGED <<thisBinding, api, moduleThis, script, errors, calls, signals>>

\* a setTimeout of a setter comes due: timers of equal delay run in order
TimerFired(id) ==
    LET r == adapters[id]
    IN  /\ r.timers # <<>>
        /\ adapters' = [adapters EXCEPT ![id] =
              Dispatch([r EXCEPT !.timers = Tail(@)], Head(r.timers).type)]
        /\ lastGet' = NoGet
        /\ lastCall' = NoCall
        /\ UNCHANGED <<thisBinding, api, moduleThis, script, errors, calls, signals>>

\* the steps of the page, the browser, the host and the widget on the media
\* elements ids, the host making at most maxCalls calls
NextOn(ids, maxCalls) ==
    \/ \E id \in ids, kind \in Kinds : Create(id, kind)
    \/ \E kind \in Kinds : ScriptLoaded(kind)
    \/ OnVimeoPlayerAPIReady
    \/ signals < MaxSignals /\ \E id \in ids : ReadySignal(id)
    \/ calls < maxCalls /\ \E id \in ids, propName \in props : Get(id, propName)
    \/ calls < maxCalls /\ \E id \in ids, propName \in SetProps :
          \E value \in SetValues(propName) : Set(id, propName, value)
    \/ calls < maxCalls /\ \E id \in ids, methodName \in methods : Method(id, methodName)
    \/ \E id \in ids : \E i \in 1..Len(adapters[id].pending) :
          \E autoplay \in BOOLEAN, answer \in Answers(adapters[id].pending[i]) :
              Resolve(id, i, autoplay, answer)
    \/ \E id \in ids : \E i \in 1..Len(adapters[id].pending) : Reject(id, i)
    \/ \E id \in ids : TimerFired(id)

\* several media elements
Next == NextOn(Ids, MaxCalls)

Spec == Init /\ [][Next]_vars

\* one media element, followed further
AdapterNext == NextOn({1}, MaxCalls)

SpecAdapter == Init /\ [][AdapterNext]_vars

\* several media elements and no call of the host: the renderers' predicate
\* and the loader
LoaderNext ==
    \/ \E kind \in Kinds, type \in Types : CanPlayType(kind, type)
    \/ \E id \in Ids, kind \in Kinds : Create(id, kind)
    \/ \E kind \in Kinds : ScriptLoaded(kind)
    \/ OnVimeoPlayerAPIReady
    \/ signals < MaxSignals /\ \E id \in Ids : ReadySignal(id)

SpecLoader == Init /\ [][LoaderNext]_vars

\* one media element whose host only sets volume and muted, followed for
\* MaxVolumeCalls calls
VolumeProps == {"volume", "muted"}

VolumeNext ==
    \/ \E kind \in Kinds : Create(1, kind)
    \/ signals < MaxSignals /\ ReadySignal(1)
    \/ calls < MaxVolumeCalls /\ \E propName \in VolumeProps :
          \E value \in SetValues(propName) : Set(1, propName, value)
    \/ \E i \in 1..Len(adapters[1].pending) :
          \E autoplay \in BOOLEAN, answer \in Answers(adapters[1].pending[i]) :
              Resolve(1, i, autoplay, answer)
    \/ \E i \in 1..Len(adapters[1].pending) : Reject(1, i)
    \/ TimerFired(1)

SpecVolume == Init /\ [][VolumeNext]_vars

\* the script's load event and the global hook never fire, and nothing else
\* of the page invokes a ready callback: the page creates renderers and the
\* host calls them
NoLoadNext ==
    \/ \E id \in Ids, kind \in Kinds : Create(id, kind)
    \/ calls < MaxCalls /\ \E id \in Ids, propName \in props : Get(id, propName)
    \/ calls < MaxCalls /\ \E id \in Ids, propName \in SetProps :
          \E value \in SetValues(propName) : Set(id, propName, value)
    \/ calls < MaxCalls /\ \E id \in Ids, methodName \in methods : Method(id, methodName)

SpecNoLoad == Init /\ [][NoLoadNext]_vars

\* one media element whose host makes no call: the widget delivers up to
\* MaxRemoteEvents events and answers the handlers' queries
EventsNext ==
    \/ \E kind \in Kinds : Create(1, kind)
    \/ signals < MaxSignals /\ ReadySignal(1)
    \/ Len(adapters[1].delivered) < MaxRemoteEvents /\
          \E name \in vimeoEvents \cup scEvents : RemoteEvent(1, name)
    \/ \E i \in 1..Len(adapters[1].pending) :
          \E autoplay \in BOOLEAN, answer \in Answers(adapters[1].pending[i]) :
              Resolve(1, i, autoplay, answer)
    \/ \E i \in 1..Len(adapters[1].pending) : Reject(1, i)

SpecEvents == Init /\ [][EventsNext]_vars

\* one media element whose host only calls hide, show, setSize and destroy
SurfaceNext ==
    \/ \E kind \in Kinds : Create(1, kind)
    \/ signals < MaxSignals /\ ReadySignal(1)
    \/ calls < MaxSurfaceCalls /\
          \E op \in surfaceOps("vimeo") \cup surfaceOps("soundcloud"), size \in Sizes :
              Surface(1, op, size)
    \/ \E i \in 1..Len(adapters[1].pending) :
          \E autoplay \in BOOLEAN, answer \in Answers(adapters[1].pending[i]) :
              Resolve(1, i, autoplay, answer)
    \/ \E i \in 1..Len(adapters[1].pending) : Reject(1, i)

SpecSurface == Init /\ [][SurfaceNext]_vars

\* ================================================================ claims
Created == {id \in Ids : adapters[id].kind # "none"}

RECURSIVE Count(_, _)
Count(seq, x) ==
    IF seq = <<>> THEN 0 ELSE (IF Head(seq) = x THEN 1 ELSE 0) + Count(Tail(seq), x)

\* ---- C1 (SpecAdapter)
\* C1: once the ready callback has run, the setter and method invocations it
\* made are exactly the commands issued before readiness, each once and in
\* the order of issue; before it has run nothing has been replayed.
C1_ReplayFIFO ==
    \A id \in Created :
        adapters[id].replayed =
            IF adapters[id].apiReady THEN adapters[id].issued ELSE <<>>

\* two different commands were issued before readiness and have been replayed
C1_Witness ==
    \E id \in Created :
        /\ adapters[id].apiReady
        /\ Len(adapters[id].issued) = 2
        /\ adapters[id].issued[1] # adapters[id].issued[2]
        /\ adapters[id].replayed = adapters[id].issued

\* ---- C2 (SpecAdapter)
\* C2: while the ready signal has not fired, the widget reference is null and
\* no method of the widget has been invoked, whatever the host has called.
C2_NoRemoteBeforeReady ==
    \A id \in Created :
        ~adapters[id].apiReady =>
            /\ adapters[id].player = Null
            /\ adapters[id].remoteCalls = <<>>
            /\ adapters[id].pending = <<>>

\* not ready, after a getter call that followed a setter or method call
C2_Witness ==
    \E id \in Created :
        /\ ~adapters[id].apiReady
        /\ adapters[id].issued # <<>>
        /\ lastGet.id = id

\* ---- C3 (SpecLoader)
\* C3: once the script-load callback has run, the load queue is empty and
\* createIframe has run exactly once for every request handed to
\* enqueueIframe; it never runs twice for a request.
C3_CreatedOnceOnLoad ==
    \A id \in Created :
        /\ adapters[id].createIframes <= 1
        /\ script[adapters[id].kind].done =>
              /\ api[adapters[id].kind].iframeQueue = <<>>
              /\ adapters[id].returned => adapters[id].createIframes = 1

\* ---- C4 (SpecLoader)
\* C4: each loader injects its script tag at most once, however many
\* requests are enqueued; where `this` is an object, a loader that holds a
\* request has injected exactly one.
C4_InjectedOnce ==
    \A kind \in Kinds :
        /\ script[kind].injected <= 1
        /\ thisBinding = "object" =>
              (script[kind].injected = 1 <=> api[kind].iframeQueue # <<>>)

\* two requests were enqueued on one loader, which injected one script
C4_Witness ==
    \E kind \in Kinds :
        /\ Len(api[kind].iframeQueue) >= 2
        /\ script[kind].injected = 1

\* ---- C5 (SpecLoader)
\* C5: an enqueueIframe call made after the script's load callback has run creates
\* the surface inside the call (the adapter is ready when create() returns)
\* and leaves the load queue as it was.
C5_ImmediateWhenLoaded ==
    [][\A id \in Ids, kind \in Kinds :
          (/\ adapters[id].kind = "none"
           /\ adapters'[id].kind = kind
           /\ script[kind].done)
          => (/\ adapters'[id].apiReady
              /\ api'[kind].iframeQueue = api[kind].iframeQueue)]_vars

\* ---- C6 (SpecAdapter)
CachedProps == {"currentTime", "duration", "volume", "paused", "ended"}

CachedValue(c, propName) ==
    CASE propName = "currentTime" -> Some(c.currentTime)
      [] propName = "duration"    -> Some(c.duration)
      [] propName = "volume"      -> Some(c.volume)
      [] propName = "paused"      -> Some(c.paused)
      [] propName = "ended"       -> Some(c.ended)

\* C6: a getter called before the widget is ready returns null; called after,
\* the getters of currentTime, duration, volume, paused and ended return the
\* cached value as it is at the call, even with remote calls in flight, and
\* the call changes neither the cache nor the calls in flight.
C6_GetterReturnsCache ==
    lastGet.id # 0 =>
        /\ lastGet.wasNull => lastGet.ret = Null
        /\ (~lastGet.wasNull /\ lastGet.propName \in CachedProps) =>
              /\ lastGet.ret = CachedValue(ValueOf(lastGet.cached), lastGet.propName)
              /\ ValueOf(lastGet.cached) = Cached(adapters[lastGet.id])
              /\ Len(adapters[lastGet.id].pending) = lastGet.pending

\* getVolume() on a ready adapter whose setVolume call is still in flight
\* returns the volume cached before it
C6_Witness ==
    /\ lastGet.id # 0
    /\ ~lastGet.wasNull
    /\ lastGet.propName = "volume"
    /\ lastGet.pending > 0
    /\ lastGet.ret = Some(FullVolume)

\* ---- C7 (SpecAdapter)
\* C7: a setter or method call on an adapter that is not ready appends the
\* command to the end of its queue and changes nothing else: no remote call,
\* no cached field, no timer, no event, no other adapter, no loader state.
C7_QueueOnly ==
    [][\A id \in Ids :
          (adapters[id].player = Null /\ adapters'[id].issued # adapters[id].issued)
          => /\ adapters' = [adapters EXCEPT ![id] =
                   [@ EXCEPT !.apiStack =
                                Append(@, adapters'[id].issued[Len(adapters'[id].issued)]),
                             !.issued = adapters'[id].issued]]
             /\ Len(adapters'[id].issued) = Len(adapters[id].issued) + 1
             /\ UNCHANGED <<api, moduleThis, script, errors>>]_vars

\* a command is queued on an adapter that is not ready
C7_Witness ==
    \E id \in Created :
        /\ adapters[id].player = Null
        /\ Len(adapters[id].apiStack) = 2
        /\ adapters[id].events = <<>>

\* ---- C8 (SpecAdapter)
\* C8: from the ready callback on (the replay included) no step changes the
\* adapter's queue.
C8_QueueFrozenWhenReady ==
    [][\A id \in Ids :
          adapters'[id].apiReady => adapters'[id].apiStack = adapters[id].apiStack]_vars

\* a ready adapter has made more remote calls than its queue held commands:
\* one went straight through
C8_Witness ==
    \E id \in Created :
        /\ adapters[id].apiReady
        /\ adapters[id].apiStack # <<>>
        /\ Len(adapters[id].remoteCalls) > Len(adapters[id].apiStack)

\* ---- C9 (SpecAdapter)
\* C9 as stated: after the ready callback has flushed it, the queue is empty.
C9_ClearedAfterFlush ==
    \A id \in Created : adapters[id].apiReady => adapters[id].apiStack = <<>>

\* C9, amended: after the flush the queue still holds the commands issued
\* before readiness (it is abandoned, not emptied), and from then on no step
\* invokes a queued command again.
C9_AbandonedAfterFlush ==
    /\ [](\A id \in Created :
            adapters[id].apiReady => adapters[id].apiStack = adapters[id].issued)
    /\ [][\A id \in Ids :
            adapters[id].apiReady => adapters'[id].replayed = adapters[id].replayed]_vars

\* a ready adapter whose flushed queue has been followed by a further call
C9_Witness ==
    \E id \in Created :
        /\ adapters[id].apiReady
        /\ adapters[id].apiStack # <<>>
        /\ adapters[id].replayed = adapters[id].apiStack
        /\ calls > Len(adapters[id].apiStack)

\* ---- C10 (SpecAdapter)
setVolumeCall(v) == [method |-> "setVolume", param |-> Some(v)]

\* C10: on a ready adapter whose only remote call is setVolume(v), once the
\* volumechange event has been dispatched the cached volume is v and
\* getVolume() returns v; at most one volumechange is dispatched, and exactly
\* one once the call has succeeded and no timer is left.
C10_VolumeCached ==
    \A id \in Created :
        LET r == adapters[id]
        IN  (/\ r.apiReady
             /\ r.remoteCalls = <<setVolumeCall(HalfVolume)>>
             /\ r.rejected = 0)
            => /\ Count(r.events, "volumechange") <= 1
               /\ Count(r.events, "volumechange") = 1 =>
                     /\ r.volume = HalfVolume
                     /\ getValue(r, "volume") = Some(HalfVolume)
               /\ (r.pending = <<>> /\ r.timers = <<>>) =>
                     Count(r.events, "volumechange") = 1

\* ---- C11 (SpecAdapter)
seekCall(r) ==
    [method |-> IF r.kind = "vimeo" THEN "setCurrentTime" ELSE "seekTo",
     param |-> Some(IF r.kind = "vimeo" THEN SeekTime ELSE SeekTime * MsPerSecond)]

\* C11: for an adapter whose only command is a setCurrentTime(SeekTime) issued
\* before the ready signal and that has made no other remote call: until the signal the cached currentTime is the
\* initial one and no event has been dispatched; the ready callback issues the
\* seek to the widget once; at most one timeupdate is dispatched, the cached
\* currentTime is SeekTime when it is, and it is dispatched once the remote
\* call has completed and no timer is left.
C11_SeekEndToEnd ==
    \A id \in Created :
        LET r == adapters[id]
        IN  (/\ r.issued = <<SetCommand("currentTime", SeekTime)>>
             /\ Len(r.remoteCalls) <= 1
             /\ r.rejected = 0)
            => /\ ~r.apiReady => (r.currentTime = 0 /\ r.events = <<>>)
               /\ r.apiReady =>
                     /\ r.remoteCalls = <<seekCall(r)>>
                     /\ Count(r.events, "timeupdate") <= 1
                     /\ Count(r.events, "timeupdate") = 1 => r.currentTime = SeekTime
                     /\ (r.pending = <<>> /\ r.timers = <<>>) =>
                           /\ Count(r.events, "timeupdate") = 1
                           /\ r.currentTime = SeekTime

\* ---- C12 (SpecVolume)
MuteCommands == <<SetCommand("volume", HalfVolume), SetCommand("muted", TRUE),
                  SetCommand("muted", FALSE)>>

\* C12: for an adapter whose commands are setVolume(HalfVolume), setMuted(true),
\* setMuted(false), queued before readiness and replayed together, with no
\* other remote call: the volume the unmute sends to the widget is HalfVolume,
\* and once the three calls have completed the cached volume is HalfVolume.
C12_UnmuteRestores ==
    \A id \in Created :
        LET r == adapters[id]
        IN  (/\ r.issued = MuteCommands
             /\ r.apiReady
             /\ Len(r.remoteCalls) = 3
             /\ r.rejected = 0)
            => /\ r.remoteCalls[3] = setVolumeCall(HalfVolume)
               /\ r.pending = <<>> => r.volume = HalfVolume

\* ---- C13 (SpecAdapter)
\* C13: for a Vimeo adapter, every rejection of a remote call it issued has
\* produced exactly one error event on its media element (as many error events
\* as rejections), and the handler of the rejection has thrown nothing.
C13_RejectionIsOneError ==
    \A id \in Created :
        adapters[id].kind = "vimeo" =>
            /\ Count(adapters[id].events, "error") = adapters[id].rejected
            /\ "errorHandler" \notin errors

\* ---- C14 (SpecNoLoad)
\* C14: where the script's load callback never fires, every adapter stays not
\* ready in every state: its widget reference is null, nothing has been issued
\* to a widget or replayed, no event has been dispatched or scheduled, its
\* queue holds exactly the commands the host has issued, every getter call
\* returns null and each loader has injected at most one script; every step
\* that injects a script creates a renderer, and every setter or method call
\* appends one command to one adapter's queue and changes nothing else.
C14_NeverReady ==
    /\ [](\A id \in Created :
            /\ ~adapters[id].apiReady
            /\ adapters[id].player = Null
            /\ adapters[id].remoteCalls = <<>>
            /\ adapters[id].pending = <<>>
            /\ adapters[id].replayed = <<>>
            /\ adapters[id].events = <<>>
            /\ adapters[id].timers = <<>>
            /\ adapters[id].createIframes = 0
            /\ adapters[id].apiStack = adapters[id].issued)
    /\ [](lastGet.id # 0 => lastGet.ret = Null)
    /\ [](\A kind \in Kinds : script[kind].injected <= 1)
    /\ [][script' # script => Created' # Created]_vars
    /\ [][(calls' # calls /\ lastGet'.id = 0) =>
            \E id \in Created :
                /\ Len(adapters'[id].apiStack) = Len(adapters[id].apiStack) + 1
                /\ SubSeq(adapters'[id].apiStack, 1, Len(adapters[id].apiStack))
                      = adapters[id].apiStack
                /\ adapters' = [adapters EXCEPT ![id] =
                      [@ EXCEPT !.apiStack = adapters'[id].apiStack,
                                !.issued = adapters'[id].issued]]
                /\ UNCHANGED <<api, moduleThis, script, errors>>]_vars

\* the script was injected and never loaded; the host has made two setter or
\* method calls and then read a property of the adapter that queued them
C14_Witness ==
    \E id \in Created :
        /\ script[adapters[id].kind].injected = 1
        /\ ~script[adapters[id].kind].done
        /\ Len(adapters[id].apiStack) = MaxCalls - 1
        /\ lastGet.id = id
        /\ lastGet.ret = Null

\* ---- C15 (SpecAdapter)
\* C15: an adapter that is not ready has dispatched nothing; a ready adapter's
\* events begin with rendererready, loadeddata, loadedmetadata, canplay in
\* that order, the sequence was dispatched once (rendererready, loadeddata and
\* canplay occur once each), and when its first event was dispatched every
\* queued command had been replayed and every remote event subscribed to.
C15_StartupEvents ==
    \A id \in Created :
        LET r == adapters[id]
        IN  /\ ~r.apiReady => (r.events = <<>> /\ r.startup = Null)
            /\ r.apiReady =>
                  /\ Len(r.events) >= Len(initEvents)
                  /\ SubSeq(r.events, 1, Len(initEvents)) = initEvents
                  /\ \A e \in {"rendererready", "loadeddata", "canplay"} :
                        Count(r.events, e) = 1
                  /\ r.startup = Some([replayed |-> r.issued,
                                       subscribed |-> IF r.kind = "vimeo"
                                                      THEN vimeoEvents ELSE scEvents])

\* a ready adapter that had a command queued: the replayed call is still in
\* flight and the startup events are all it has dispatched
C15_Witness ==
    \E id \in Created :
        /\ adapters[id].apiReady
        /\ Len(adapters[id].issued) = 1
        /\ adapters[id].pending # <<>>
        /\ adapters[id].events = initEvents

\* ---- C16 (SpecEvents)
\* the continuations that read the answer of a state query of an event handler
QueryThens == {"loaded", "progress", "seconds", "position", "ready",
               "loadProgress", "loadDuration"}

\* the state queries of event handlers still in flight
Queries(r) == {i \in 1..Len(r.pending) : r.pending[i].then \in QueryThens}

\* C16: for a ready adapter whose remote calls have not been rejected, the
\* events dispatched after the startup events are never more than the remote
\* events delivered, they are exactly as many once no handler's state query
\* is in flight (one standardized event per delivery), and a single delivery
\* whose query is still in flight has dispatched nothing yet (the event
\* follows the update of the cache from the query's answer).
C16_OneEventPerDelivery ==
    \A id \in Created :
        LET r == adapters[id]
            dispatched == Len(r.events) - Len(initEvents)
        IN  (r.apiReady /\ r.rejected = 0) =>
                /\ dispatched <= Len(r.delivered)
                /\ Queries(r) = {} => dispatched = Len(r.delivered)
                /\ (Len(r.delivered) = 1 /\ Queries(r) # {}) => dispatched = 0

\* ---- C17 (SpecLoader)
\* C17: canPlayType of the Vimeo renderer returns true exactly for
\* 'video/vimeo' and 'video/x-vimeo', canPlayType of the SoundCloud renderer
\* exactly for 'video/soundcloud' and 'video/x-soundcloud'; for every other
\* string, the other renderer's and other-case ones included, it returns false.
C17_CanPlayType ==
    lastCall.op = "canPlayType" =>
        lastCall.can =
            \/ lastCall.kind = "vimeo" /\ lastCall.name \in {"video/vimeo", "video/x-vimeo"}
            \/ lastCall.kind = "soundcloud" /\
                  lastCall.name \in {"video/soundcloud", "video/x-soundcloud"}

\* the Vimeo renderer was asked about 'video/vimeo' after a renderer was
\* created, and said yes
C17_Witness ==
    /\ lastCall.op = "canPlayType"
    /\ lastCall.kind = "vimeo"
    /\ lastCall.name = "video/vimeo"
    /\ lastCall.can
    /\ Created # {}

\* ---- C18 (SpecAdapter)
\* C18: load() on a ready adapter changes nothing (no remote call, no cached
\* field, no event, no timer, no loader state) and returns null; play() and
\* pause() on a ready adapter append exactly one call of that name to the
\* calls made to the widget and change nothing but the calls in flight;
\* load() before readiness appends a load command to the queue and calls
\* nothing; and a ready callback that finds only load commands in the queue
\* calls nothing, changes no cached field and dispatches only the startup
\* events.
C18_LoadIsNoOp ==
    [][\A id \in Ids :
          LET r == adapters[id]
              r2 == adapters'[id]
              called == lastCall'.op = "call" /\ lastCall'.id = id
          IN  /\ (called /\ r.player # Null /\ lastCall'.name = "load") =>
                    /\ adapters' = adapters
                    /\ lastCall'.ret = "null"
                    /\ UNCHANGED <<api, moduleThis, script, errors>>
              /\ (called /\ r.player # Null /\ lastCall'.name \in {"play", "pause"}) =>
                    /\ r2.remoteCalls =
                          Append(r.remoteCalls, [method |-> lastCall'.name, param |-> Null])
                    /\ r2 = [r EXCEPT !.remoteCalls = r2.remoteCalls,
                                      !.pending = r2.pending]
              /\ (called /\ r.player = Null /\ lastCall'.name = "load") =>
                    /\ r2.apiStack = Append(r.apiStack, CallCommand("load"))
                    /\ r2.remoteCalls = <<>>
              /\ (/\ ~r.apiReady /\ r2.apiReady
                  /\ \A i \in 1..Len(r.apiStack) : r.apiStack[i] = CallCommand("load")) =>
                    /\ r2.remoteCalls = <<>>
                    /\ r2.pending = <<>>
                    /\ r2.timers = <<>>
                    /\ Cached(r2) = Cached(r)
                    /\ r2.events = initEvents]_vars

\* load() was queued before readiness and replayed, and load() was then called
\* on the ready adapter: nothing was ever sent to the widget
C18_Witness ==
    /\ lastCall.op = "call"
    /\ lastCall.name = "load"
    /\ lastCall.ret = "null"
    /\ lastCall.id \in Created
    /\ adapters[lastCall.id].apiReady
    /\ adapters[lastCall.id].replayed = <<CallCommand("load")>>
    /\ adapters[lastCall.id].remoteCalls = <<>>

\* ---- C19 (SpecAdapter)
\* the properties of the standard interface neither setter has a case for
Unsupported == {"duration", "paused", "ended", "buffered"}

\* C19: the setter of an unsupported property, called on a ready adapter,
\* writes one diagnostic line and changes nothing else: no remote call, no
\* call in flight, no cached field, no timer, no event, no other adapter, no
\* loader state, and nothing is thrown.
C19_UnsupportedIgnored ==
    [][\A id \in Ids :
          (/\ lastCall'.op = "set"
           /\ lastCall'.id = id
           /\ lastCall'.name \in Unsupported
           /\ adapters[id].player # Null)
          => /\ adapters' = [adapters EXCEPT ![id].logged = @ + 1]
             /\ UNCHANGED <<api, moduleThis, script, errors>>]_vars

\* two unsupported setters were called on a ready adapter
C19_Witness ==
    /\ lastCall.op = "set"
    /\ lastCall.name \in Unsupported
    /\ lastCall.id \in Created
    /\ adapters[lastCall.id].apiReady
    /\ adapters[lastCall.id].logged = 2
    /\ adapters[lastCall.id].events = initEvents

\* ---- C20 (SpecLoader)
RECURSIVE Reverse(_)
Reverse(seq) == IF seq = <<>> THEN <<>> ELSE Append(Reverse(Tail(seq)), Head(seq))

\* C20: the step in which a loader's script-load callback runs creates the
\* surfaces that were enqueued before it, last enqueued first: createIframe
\* has then run for the enqueued requests in the reverse of their order.
C20_DrainedLIFO ==
    [][\A kind \in Kinds :
          (~script[kind].done /\ script'[kind].done)
          => api'[kind].created = Reverse(api[kind].enqueued)]_vars

\* ---- C21 (SpecSurface)
\* C21: while an adapter's widget reference is null no method of the widget
\* has been invoked and no operation has dereferenced the null reference (no
\* destroy has thrown); a hide() on such an adapter appends one pause command
\* to its queue and changes nothing else but the frame's display style.
C21_SurfaceBeforeReady ==
    /\ [](\A id \in Created :
            adapters[id].player = Null =>
                /\ adapters[id].remoteCalls = <<>>
                /\ adapters[id].dereferenced = 0
                /\ "destroy" \notin errors)
    /\ [][\A id \in Ids :
            (/\ lastCall'.op = "surface"
             /\ lastCall'.id = id
             /\ lastCall'.name = "hide"
             /\ adapters[id].player = Null)
            => adapters' = [adapters EXCEPT
                  ![id].apiStack = Append(@, CallCommand("pause")),
                  ![id].issued = Append(@, CallCommand("pause")),
                  ![id].display = adapters'[id].display]]_vars

\* ---- C22 (SpecEvents)
\* the widget methods that only read its state
QueryMethods == {"getDuration", "getCurrentTime", "getPosition", "getVideoUrl"}

\* C22: the handler of a remote event calls no method of the widget but
\* state queries: a step that delivers a remote event to an adapter adds no
\* play, pause or other command to the calls made to its widget.
C22_NoCommandOnEvent ==
    [][\A id \in Ids :
          Len(adapters'[id].delivered) > Len(adapters[id].delivered)
          => \A i \in (Len(adapters[id].remoteCalls) + 1)..Len(adapters'[id].remoteCalls) :
                adapters'[id].remoteCalls[i].method \in QueryMethods]_vars

\* ---- C23 (SpecEvents)
\* C23: a Vimeo adapter's cached paused and ended are never both true; the
\* handler of ended sets ended and clears paused, the handlers of play, pause
\* and timeupdate clear ended, and the handlers of progress and timeupdate
\* leave paused as its getter returns it.
C23_NotPausedAndEnded ==
    /\ [](\A id \in Created :
            adapters[id].kind = "vimeo" => ~(adapters[id].paused /\ adapters[id].ended))
    /\ [][\A id \in Ids :
            (/\ adapters[id].kind = "vimeo"
             /\ Len(adapters'[id].delivered) > Len(adapters[id].delivered))
            => LET name == adapters'[id].delivered[Len(adapters'[id].delivered)]
               IN  /\ name = "ended" => (adapters'[id].ended /\ ~adapters'[id].paused)
                   /\ name \in {"play", "pause", "timeupdate"} => ~adapters'[id].ended
                   /\ name \in {"progress", "timeupdate"} =>
                         adapters'[id].paused = adapters[id].paused]_vars

\* a Vimeo adapter that was paused when the widget reported the end
C23_Witness ==
    \E id \in Created :
        /\ adapters[id].kind = "vimeo"
        /\ adapters[id].delivered = <<"pause", "ended">>
        /\ adapters[id].ended
        /\ ~adapters[id].paused

====
